---- MODULE Spec2Model ----
(***************************************************************************)
(* git2txt: the recursive walker of processFiles (src/index.js) and the    *)
(* orchestration of main.  Paths are sequences of path components, the     *)
(* output text is the sequence of its newline-terminated lines, and the    *)
(* tree under the root is revealed by the readdir calls the walker makes.  *)
(***************************************************************************)
EXTENDS Integers, Sequences, FiniteSets, TLC

(* ------------------------------ bounds --------------------------------- *)
\* entries one readdir call may return
MaxEntries == 3
\* nesting of processDirectory calls (the root call is depth 1)
MaxDepth == 2
\* directory entries returned over a whole walk
MaxNodes == 4

(* --------------------------- the file system --------------------------- *)
\* Entry names matter to the walker only through the two literal names it
\* compares against, so the k-th other name of a listing is written RegularNames[k].
RegularNames == <<"a", "b", "c", "d", "e">>
ReservedNames == {".git", "node_modules"}
Types == {"file", "dir", "symlink"}

isDirectory(entry) == entry.type = "dir"
isFile(entry) == entry.type = "file"

\* the listings of n entries with pairwise distinct names, k of them regular names
RECURSIVE ListingsOf(_, _)
ListingsOf(n, k) ==
    IF n = 0 THEN IF k = 0 THEN {<<>>} ELSE {}
    ELSE {Append(l, [name |-> r, type |-> t]) :
             l \in ListingsOf(n - 1, k), r \in ReservedNames, t \in {"dir"}}
         \cup
         (IF k = 0 THEN {}
          ELSE {Append(l, [name |-> RegularNames[k], type |-> t]) :
                   l \in ListingsOf(n - 1, k - 1), t \in Types})

DistinctNames(l) == \A i, j \in 1..Len(l) : i # j => l[i].name # l[j].name

\* what a readdir may answer, by length
Listings ==
    [n \in 0..MaxEntries |->
        {l \in UNION {ListingsOf(n, k) : k \in 0..n} : DistinctNames(l)}]

\* the same for a directory at the deepest nesting modelled: nothing to descend into
LeafListings ==
    [n \in 0..MaxEntries |->
        {l \in Listings[n] :
            \A i \in 1..n : isDirectory(l[i]) => l[i].name \in ReservedNames}]

MB == 1024 * 1024
Thresholds == {1}
FileSizes == {MB - 1, MB, MB + 1}
TextContents == {"hello"}
BinaryContent == "\\0\\0\\0"

\* A regular file of the tree, which does not change during a walk: whether its
\* path resolves (stat), whether it can be opened for reading, its size, whether
\* its first bytes look binary, and its bytes decoded as utf8.
Files ==
    {[statable |-> FALSE, readable |-> FALSE, size |-> 0, binary |-> FALSE,
      content |-> ""]}
    \cup
    {[statable |-> TRUE, readable |-> FALSE, size |-> s, binary |-> FALSE,
      content |-> ""] : s \in FileSizes}
    \cup
    {[statable |-> TRUE, readable |-> TRUE, size |-> s, binary |-> FALSE,
      content |-> c] : s \in FileSizes, c \in TextContents}
    \cup
    {[statable |-> TRUE, readable |-> TRUE, size |-> s, binary |-> TRUE,
      content |-> BinaryContent] : s \in FileSizes}

\* fs.stat, isBinaryFile and fs.readFile on such a file: a value, or a rejection
stat(file) == [ok |-> file.statable, size |-> file.size]
isBinaryFile(file) ==
    IF ~file.statable \/ ~file.readable THEN "error"
    ELSE IF file.binary THEN "binary" ELSE "text"
readFile(file) ==
    [ok |-> file.statable /\ file.readable, content |-> file.content]

(* ------------------------------- paths --------------------------------- *)
join(dir, name) == Append(dir, name)

RECURSIVE CommonPrefix(_, _)
CommonPrefix(p, q) ==
    IF p = <<>> \/ q = <<>> \/ Head(p) # Head(q) THEN 0
    ELSE 1 + CommonPrefix(Tail(p), Tail(q))

\* path.relative(from, to): climb out of what is left of `from`, descend `to`
relative(from, to) ==
    LET c == CommonPrefix(from, to)
    IN [i \in 1..(Len(from) - c) |-> ".."] \o SubSeq(to, c + 1, Len(to))

(* ---------------------------- record format ---------------------------- *)
Separator == <<"=", 80>>
BlankLine == <<"">>

formatFileSize(size) ==
    LET e == IF size < 1000 THEN 0 ELSE IF size < 1000000 THEN 1 ELSE 2
        unit == IF e = 0 THEN 1 ELSE IF e = 1 THEN 1000 ELSE 1000000
        hundredths == (size * 100 + unit \div 2) \div unit
    IN <<hundredths, IF e = 0 THEN "B" ELSE IF e = 1 THEN "kB" ELSE "MB">>

\* the lines the five `output +=` statements add for one file
Record(relativePath, size, content) ==
    << BlankLine,
       Separator,
       <<"File: ", relativePath>>,
       <<"Size: ", formatFileSize(size)>>,
       Separator,
       BlankLine,
       <<content>> >>

RecordLines == Len(Record(<<>>, 0, ""))

(* ------------------------------ the CLI -------------------------------- *)
\* what validateInput and normalizeGitHubUrl test on the text of a source
Sources == {"user/repo", "https://github.com/user/repo", "https://gitlab.com/user/repo"}
includesGitHub(source) == source = "https://github.com/user/repo"
matchesShortFormat(source) == source = "user/repo"

\* the directory a source names when it is read as a local path
LocalPath(source) ==
    IF source = "user/repo" THEN <<"user", "repo">>
    ELSE IF source = "https://github.com/user/repo"
         THEN <<"https:", "github.com", "user", "repo">>
         ELSE <<"https:", "gitlab.com", "user", "repo">>

\* path.join(os.tmpdir(), `git2txt-${Date.now()}`)
TempDir == <<"tmp", "git2txt-now">>

MsgRequired == "Repository URL or path is required"
MsgInvalidLocal == "Invalid local repository path. Make sure it's a Git repository."
MsgOnlyGitHub == "Only GitHub repositories or local paths (with --local flag) are supported"
MsgNoContent == "No content was generated from the repository"
MsgDownload == "git clone failed"
MsgReaddir == "ENOENT: scandir"
MsgWrite == "EACCES: open"

VARIABLES
    pc,              \* position of the caller / of processFiles
    caller,          \* who awaits processFiles: "main" or a direct caller
    nodeEnv,         \* process.env.NODE_ENV
    cli,             \* cli.input and cli.flags
    result,          \* main: what validateInput resolved with
    mainResult,      \* how the promise of main() / the process ended
    written,         \* what writeOutput put in the output file
    cleaned,         \* the directories handed to cleanup
    directory,       \* processFiles' first argument (the root)
    options,         \* processFiles' second argument
    stack,           \* the active processDirectory calls, innermost last
    output, processedFiles, skippedFiles,
    ret,             \* what processFiles gave its caller
    visited,         \* regular files the loop reached so far
    last,            \* the latest file visit: the path, the file there, the verdict
    order,           \* per appended record: the file, its directory and listing index
    nodes,           \* directory entries returned so far
    enumFailed       \* a readdir rejected during this walk

mainVars == <<caller, nodeEnv, cli, result, mainResult, written, cleaned>>
walkVars == <<directory, options, stack, output, processedFiles, skippedFiles,
              ret, visited, last, order, nodes, enumFailed>>
vars == <<pc, mainVars, walkVars>>

NoFile == [statable |-> FALSE, readable |-> FALSE, size |-> 0, binary |-> FALSE,
           content |-> ""]
NoVisit == [path |-> <<>>, file |-> NoFile, verdict |-> "none"]

Roots == {<<"repo">>}

Pending == [kind |-> "pending", type |-> "undefined", value |-> <<>>]
NoResult == [type |-> "none", path |-> <<>>]
Running == [kind |-> "running", code |-> 0, message |-> ""]

Flags == [local : BOOLEAN, includeAll : BOOLEAN, threshold : Thresholds]

Init ==
    /\ pc = "start"
    /\ caller = "none"
    /\ nodeEnv \in {"test", "production"}
    /\ cli = [input |-> <<>>, flags |-> [local |-> FALSE, includeAll |-> FALSE,
                                        threshold |-> 1]]
    /\ result = NoResult
    /\ mainResult = Running
    /\ written = <<>>
    /\ cleaned = {}
    /\ directory = <<>>
    /\ options = [threshold |-> 1, includeAll |-> FALSE]
    /\ stack = <<>>
    /\ output = <<>>
    /\ processedFiles = 0
    /\ skippedFiles = 0
    /\ ret = Pending
    /\ visited = 0
    /\ last = NoVisit
    /\ order = <<>>
    /\ nodes = 0
    /\ enumFailed = FALSE

thresholdBytes == options.threshold * 1024 * 1024

\* what fs.readdir may answer for a directory opened at nesting `depth`
ReaddirResults(depth) ==
    UNION {IF depth >= MaxDepth THEN LeafListings[n] ELSE Listings[n] :
              n \in 0..(IF MaxNodes - nodes < MaxEntries THEN MaxNodes - nodes
                        ELSE MaxEntries)}

Frame(dir, entries) == [dir |-> dir, entries |-> entries, i |-> 1]

Top == stack[Len(stack)]
Entry == Top.entries[Top.i]
InLoop == pc = "walking" /\ stack # <<>> /\ Top.i <= Len(Top.entries)

Advance == [stack EXCEPT ![Len(stack)].i = @ + 1]

\* a direct call of the exported processFiles
CallProcessFiles ==
    /\ pc = "start"
    /\ \E root \in Roots, t \in Thresholds, all \in BOOLEAN :
          /\ directory' = root
          /\ options' = [threshold |-> t, includeAll |-> all]
    /\ pc' = "called"
    /\ caller' = "direct"
    /\ UNCHANGED <<nodeEnv, cli, result, mainResult, written, cleaned>>
    /\ UNCHANGED <<stack, output, processedFiles, skippedFiles, ret, visited,
                   last, order, nodes, enumFailed>>

\* processDirectory(directory): the outermost readdir succeeds
EnterRoot ==
    /\ pc = "called"
    /\ \E entries \in ReaddirResults(1) :
          /\ stack' = <<Frame(directory, entries)>>
          /\ nodes' = nodes + Len(entries)
    /\ pc' = "walking"
    /\ UNCHANGED mainVars
    /\ UNCHANGED <<directory, options, output, processedFiles, skippedFiles,
                   ret, visited, last, order, enumFailed>>

\* the directory test with the two names waived under includeAll
Descends_IncludeAll(entry) ==
    isDirectory(entry)
    /\ (options.includeAll \/ (entry.name # "node_modules" /\ entry.name # ".git"))

\* `entry.isDirectory() && entry.name !== 'node_modules' && entry.name !== '.git'`
Descends(entry) ==
    isDirectory(entry) /\ entry.name # "node_modules" /\ entry.name # ".git"

\* an entry the walker descends into: the recursive call's readdir succeeds
EnterSubdirectory ==
    /\ InLoop
    /\ Descends(Entry)
    /\ \E entries \in ReaddirResults(Len(stack) + 1) :
          /\ stack' = Append(stack, Frame(join(Top.dir, Entry.name), entries))
          /\ nodes' = nodes + Len(entries)
    /\ UNCHANGED <<pc, mainVars>>
    /\ UNCHANGED <<directory, options, output, processedFiles, skippedFiles,
                   ret, visited, last, order, enumFailed>>

\* a catch that returns the text gathered so far instead of rethrowing
Rethrown_PartialOutput == [kind |-> "value", type |-> "string", value |-> output]

\* what processFiles' caller gets when the readdir of a processDirectory call rejects:
\* no frame catches it, and processFiles' own catch rethrows it
Rethrown == [kind |-> "thrown", type |-> "Error", value |-> <<MsgReaddir>>]

\* fs.readdir rejects, for the root or for a directory the walker descends into
ReaddirFails ==
    /\ \/ pc = "called"
       \/ InLoop /\ Descends(Entry)
    /\ pc' = "returned"
    /\ stack' = <<>>
    /\ ret' = Rethrown
    /\ enumFailed' = TRUE
    /\ UNCHANGED mainVars
    /\ UNCHANGED <<directory, options, output, processedFiles, skippedFiles,
                   visited, last, order, nodes>>

\* `if (!entry.isFile()) continue;` reached by symlinks and reserved directories
SkipNonFile ==
    /\ InLoop
    /\ ~Descends(Entry)
    /\ ~isFile(Entry)
    /\ stack' = Advance
    /\ UNCHANGED <<pc, mainVars>>
    /\ UNCHANGED <<directory, options, output, processedFiles, skippedFiles,
                   ret, visited, last, order, nodes, enumFailed>>

\* the size test written with >=, which drops a file of exactly thresholdBytes
TooLarge_AtThreshold(stats) == ~options.includeAll /\ stats.size >= thresholdBytes

\* `!options.includeAll && stats.size > thresholdBytes`
TooLarge(stats) == ~options.includeAll /\ stats.size > thresholdBytes

\* where one pass through the try block ends: at one of the two `continue`s,
\* in the catch block, or past the five `output +=` statements
Verdict(file) ==
    IF ~stat(file).ok THEN "caught"
    ELSE IF TooLarge(stat(file)) THEN "large"
    ELSE IF ~options.includeAll /\ isBinaryFile(file) = "error" THEN "caught"
    ELSE IF ~options.includeAll /\ isBinaryFile(file) = "binary" THEN "binary"
    ELSE IF ~readFile(file).ok THEN "caught"
    ELSE "appended"

\* the counting with the `skippedFiles++` of the size branch, or of the catch
\* block, left out
SkipIncrement_NotLarge(verdict) == IF verdict \in {"appended", "large"} THEN 0 ELSE 1
SkipIncrement_NotCaught(verdict) == IF verdict \in {"appended", "caught"} THEN 0 ELSE 1

\* the `skippedFiles++` of the two `continue` branches and of the catch block
SkipIncrement(verdict) == IF verdict = "appended" THEN 0 ELSE 1

\* the path taken from the directory being walked instead of the root
RelativePath_FromDir(dir, fullPath) == relative(dir, fullPath)

\* `path.relative(directory, fullPath)`
RelativePath(dir, fullPath) == relative(directory, fullPath)

\* the record put in front of the text instead of behind it
Appended_InFront(text, record) == record \o text

\* `output =` in place of `output +=`: the record replaces the text
Appended_Overwriting(text, record) == record

\* the five `output +=` statements
Appended(text, record) == text \o record

\* the try / catch around one regular file
VisitFile ==
    /\ InLoop
    /\ ~Descends(Entry)
    /\ isFile(Entry)
    /\ \E file \in Files :
          LET fullPath == join(Top.dir, Entry.name)
              relativePath == RelativePath(Top.dir, fullPath)
              verdict == Verdict(file)
          IN /\ last' = [path |-> fullPath, file |-> file, verdict |-> verdict]
             /\ skippedFiles' = skippedFiles + SkipIncrement(verdict)
             /\ IF verdict = "appended"
                THEN /\ output' = Appended(output,
                                     Record(relativePath, stat(file).size,
                                            readFile(file).content))
                     /\ processedFiles' = processedFiles + 1
                     /\ order' = Append(order, [dir |-> Top.dir, idx |-> Top.i,
                                                path |-> fullPath,
                                                content |-> file.content])
                ELSE UNCHANGED <<output, processedFiles, order>>
    /\ visited' = visited + 1
    /\ stack' = Advance
    /\ UNCHANGED <<pc, mainVars, directory, options, ret, nodes, enumFailed>>

\* the for loop of a recursive call ends: back in the parent's loop, `continue`
ReturnFromDirectory ==
    /\ pc = "walking"
    /\ Len(stack) > 1
    /\ Top.i > Len(Top.entries)
    /\ stack' = [SubSeq(stack, 1, Len(stack) - 1) EXCEPT ![Len(stack) - 1].i = @ + 1]
    /\ UNCHANGED <<pc, mainVars>>
    /\ UNCHANGED <<directory, options, output, processedFiles, skippedFiles,
                   ret, visited, last, order, nodes, enumFailed>>

\* `return output;`
Returned == [kind |-> "value", type |-> "string", value |-> output]

\* the outermost loop ends
ProcessFilesReturns ==
    /\ pc = "walking"
    /\ Len(stack) = 1
    /\ Top.i > Len(Top.entries)
    /\ stack' = <<>>
    /\ pc' = "returned"
    /\ ret' = Returned
    /\ UNCHANGED mainVars
    /\ UNCHANGED <<directory, options, output, processedFiles, skippedFiles,
                   visited, last, order, nodes, enumFailed>>

(* -------------------------------- main --------------------------------- *)
\* main's catch block: print the message, process.exit(1)
Caught(message) == [kind |-> "exit", code |-> 1, message |-> message]

\* main calls processFiles(targetDir, {threshold, includeAll}) with the CLI's flags
CallFromMain(targetDir, flags) ==
    /\ directory' = targetDir
    /\ options' = [threshold |-> flags.threshold, includeAll |-> flags.includeAll]
    /\ pc' = "called"

\* main up to its first pending await: validateInput(cli.input, cli.flags), which
\* stats the path (validateLocalRepo) when --local is given
MainValidatesInput ==
    /\ pc = "start"
    /\ caller' = "main"
    /\ \E input \in {<<>>} \cup {<<src>> : src \in Sources}, flags \in Flags,
          isValidRepo \in BOOLEAN :
          /\ cli' = [input |-> input, flags |-> flags]
          /\ IF Len(input) = 0
             THEN /\ mainResult' = Caught(MsgRequired)
                  /\ pc' = "exited"
                  /\ UNCHANGED <<result, directory, options>>
             ELSE IF flags.local
             THEN IF ~isValidRepo
                  THEN /\ mainResult' = Caught(MsgInvalidLocal)
                       /\ pc' = "exited"
                       /\ UNCHANGED <<result, directory, options>>
                  ELSE /\ result' = [type |-> "local", path |-> LocalPath(input[1])]
                       /\ CallFromMain(LocalPath(input[1]), flags)
                       /\ UNCHANGED mainResult
             ELSE IF ~includesGitHub(input[1]) /\ ~matchesShortFormat(input[1])
                  THEN /\ mainResult' = Caught(MsgOnlyGitHub)
                       /\ pc' = "exited"
                       /\ UNCHANGED <<result, directory, options>>
                  ELSE /\ result' = [type |-> "remote", path |-> <<>>]
                       /\ pc' = "downloading"
                       /\ UNCHANGED <<mainResult, directory, options>>
    /\ UNCHANGED <<nodeEnv, written, cleaned>>
    /\ UNCHANGED <<stack, output, processedFiles, skippedFiles, ret, visited,
                   last, order, nodes, enumFailed>>

\* downloadRepository resolves with the temporary directory, or cleans it up and throws
MainDownloads ==
    /\ pc = "downloading"
    /\ \E cloned \in BOOLEAN :
          IF cloned
          THEN /\ CallFromMain(TempDir, cli.flags)
               /\ UNCHANGED <<mainResult, cleaned>>
          ELSE /\ cleaned' = cleaned \cup {TempDir}
               /\ mainResult' = Caught(MsgDownload)
               /\ pc' = "exited"
               /\ UNCHANGED <<directory, options>>
    /\ UNCHANGED <<caller, nodeEnv, cli, result, written>>
    /\ UNCHANGED <<stack, output, processedFiles, skippedFiles, ret, visited,
                   last, order, nodes, enumFailed>>

\* `!content` on what processFiles returned
Falsy(value) == value = <<>>

\* main resumes after `await processFiles(...)`
MainResumes ==
    /\ pc = "returned"
    /\ caller = "main"
    /\ IF ret.kind = "thrown"
       THEN /\ mainResult' = Caught(ret.value[1])
            /\ pc' = "exited"
       ELSE IF Falsy(ret.value)
       THEN /\ mainResult' = Caught(MsgNoContent)
            /\ pc' = "exited"
       ELSE /\ pc' = "writing"
            /\ UNCHANGED mainResult
    /\ UNCHANGED <<caller, nodeEnv, cli, result, written, cleaned>>
    /\ UNCHANGED walkVars

\* cleanup called whatever the type of the repository
CleansUp_Always(validated) == TRUE

\* `if (result.type === 'remote')` around `await cleanup(targetDir)`
CleansUp(validated) == validated.type = "remote"

\* writeOutput(content, outputPath), then cleanup for a remote repository only
MainWritesOutput ==
    /\ pc = "writing"
    /\ \E wrote \in BOOLEAN :
          IF ~wrote
          THEN /\ mainResult' = Caught(MsgWrite)
               /\ pc' = "exited"
               /\ UNCHANGED <<written, cleaned>>
          ELSE /\ written' = ret.value
               /\ cleaned' = IF CleansUp(result) THEN cleaned \cup {directory}
                                                 ELSE cleaned
               /\ mainResult' = [kind |-> "resolved", code |-> 0, message |-> ""]
               /\ pc' = "done"
    /\ UNCHANGED <<caller, nodeEnv, cli, result>>
    /\ UNCHANGED walkVars

Next ==
    \/ CallProcessFiles
    \/ EnterRoot
    \/ EnterSubdirectory
    \/ ReaddirFails
    \/ SkipNonFile
    \/ VisitFile
    \/ ReturnFromDirectory
    \/ ProcessFilesReturns
    \/ MainValidatesInput
    \/ MainDownloads
    \/ MainResumes
    \/ MainWritesOutput

Spec == Init /\ [][Next]_vars

(* ------------------------- reading the output -------------------------- *)
RecordCount == Len(output) \div RecordLines
FileLine(k) == output[(k - 1) * RecordLines + 3]
ContentLine(k) == output[k * RecordLines]

\* a path under the root, written from the root
Below(path) == SubSeq(path, Len(directory) + 1, Len(path))
HasRecord(path) == \E k \in 1..RecordCount : FileLine(k) = <<"File: ", Below(path)>>

\* the directories a path under the root passes through
DirsBelow(path) == {path[n] : n \in (Len(directory) + 1)..(Len(path) - 1)}

Finished == pc \in {"returned", "writing", "done", "exited"}

(* ------------------------------- claims -------------------------------- *)

\* the reference decision of C1 for a file
C1_Reference(file) ==
    IF options.includeAll
    THEN file.statable /\ file.readable
    ELSE /\ file.statable
         /\ file.size <= options.threshold * 1024 * 1024
         /\ ~file.binary
         /\ file.readable

\* C1: the file visited last has a record in the output exactly when the reference
\* decision says so: without includeAll, its stat succeeds, its size is at most
\* thresholdBytes, it is not binary and its read succeeds; with includeAll, its
\* stat and read succeed.
C1_InclusionMatchesReference ==
    last.path # <<>> => (HasRecord(last.path) <=> C1_Reference(last.file))
C1_Witness ==
    /\ last.path # <<>>
    /\ ~options.includeAll
    /\ last.file.size = options.threshold * 1024 * 1024
    /\ HasRecord(last.path)

\* C2: processedFiles + skippedFiles is the number of regular files visited so
\* far, in every state of a walk and at its end.
C2_CountersMatchVisited == processedFiles + skippedFiles = visited
C2_Witness ==
    /\ pc = "returned" /\ ret.kind = "value"
    /\ processedFiles >= 1 /\ skippedFiles >= 1
    /\ nodes > visited

\* C3: no directory named .git or node_modules is ever enumerated, and no file
\* below one is visited or appended, whatever the options.
C3_ReservedNeverEntered ==
    /\ \A n \in 1..Len(stack) :
          DirsBelow(stack[n].dir \o <<"">>) \cap ReservedNames = {}
    /\ DirsBelow(last.path) \cap ReservedNames = {}
    /\ \A k \in 1..Len(order) : DirsBelow(order[k].path) \cap ReservedNames = {}
    /\ \A k \in 1..RecordCount :
          \A n \in 1..(Len(FileLine(k)[2]) - 1) : FileLine(k)[2][n] \notin ReservedNames
C3_Witness ==
    /\ options.includeAll
    /\ visited >= 1
    /\ \E n \in 1..Len(stack) : \E m \in 1..(stack[n].i - 1) :
          /\ isDirectory(stack[n].entries[m])
          /\ stack[n].entries[m].name \in ReservedNames

\* C4: a visit that ends in the catch block adds 1 to skippedFiles, leaves
\* processedFiles and the output alone, and leaves the walker in its loop at the
\* next entry of the same directory.
C4_FailureIsAbsorbed ==
    [][(visited' = visited + 1 /\ (~last'.file.statable \/ ~last'.file.readable))
        => /\ skippedFiles' = skippedFiles + 1
           /\ processedFiles' = processedFiles
           /\ output' = output
           /\ pc' = "walking"
           /\ ~enumFailed'
           /\ stack' = [stack EXCEPT ![Len(stack)].i = @ + 1]]_vars
C4_Witness ==
    /\ last.path # <<>>
    /\ last.file.statable /\ ~last.file.readable
    /\ pc = "walking"
    /\ Top.i <= Len(Top.entries)
    /\ processedFiles >= 1

\* C5: once a readdir has rejected, processFiles has thrown that error: nothing
\* more is visited, the caller holds the error and no text, and main writes nothing.
C5_EnumerationFailureAborts ==
    /\ [](enumFailed =>
            /\ Finished
            /\ stack = <<>>
            /\ ret.kind = "thrown"
            /\ ret.value = <<MsgReaddir>>
            /\ written = <<>>
            /\ pc = "exited" => mainResult = [kind |-> "exit", code |-> 1,
                                                message |-> MsgReaddir])
    /\ [][enumFailed =>
            UNCHANGED <<visited, output, processedFiles, skippedFiles, last, ret>>]_vars
C5_Witness ==
    /\ enumFailed
    /\ processedFiles >= 1
    /\ pc = "exited"

\* C6: a run of main that downloaded into a temporary directory has handed that
\* directory to cleanup by the time it ends.
C6_TempDirAlwaysCleaned ==
    (pc \in {"done", "exited"} /\ caller = "main" /\ result.type = "remote"
        /\ directory = TempDir)
    => TempDir \in cleaned

\* C7: what a successful processFiles gives its caller is an object with the
\* text as `content` and the two counts.
C7_ResultCarriesCounts ==
    ret.kind = "value"
    => /\ ret.type = "object"
       /\ ret.value = [content |-> output, processedCount |-> processedFiles,
                       skippedCount |-> skippedFiles]

\* C8: the record of every included file has a `File:` line with the file's path
\* from the root and ends with the file's content.
C8_PathRelativeToRoot ==
    /\ RecordCount = Len(order)
    /\ Len(output) = RecordCount * RecordLines
    /\ \A k \in 1..Len(order) :
          /\ FileLine(k) = <<"File: ", Below(order[k].path)>>
          /\ ContentLine(k) = <<order[k].content>>
    /\ last.verdict = "appended" => HasRecord(last.path)
C8_Witness ==
    \E k \in 1..Len(order) :
        /\ Len(Below(order[k].path)) >= 2
        /\ FileLine(k)[2] = Below(order[k].path)

\* C9: main() with no input, under NODE_ENV=test, rejects with the message
\* 'Repository URL is required'.
C9_MissingUrlRejects ==
    (caller = "main" /\ cli.input = <<>> /\ nodeEnv = "test"
        /\ pc \in {"done", "exited"})
    => /\ mainResult.kind = "rejected"
       /\ mainResult.message = "Repository URL is required"

SameDirectory(i, j) == order[i].dir = order[j].dir
IsPrefix(p, q) == Len(p) <= Len(q) /\ SubSeq(q, 1, Len(p)) = p

\* C10 (as claimed): the records of two files of one directory are in discovery
\* order and only records of that same directory lie between them.
C10_SameDirectoryContiguous ==
    \A i, j \in 1..Len(order) :
        (i < j /\ SameDirectory(i, j))
        => /\ order[i].idx < order[j].idx
           /\ \A k \in i..j : SameDirectory(i, k)

\* C10 (amended): the records of two files of one directory are in discovery
\* order, and what lies between them are records of that directory or of
\* directories below it.
C10_SameDirectoryInOrder ==
    /\ RecordCount = Len(order)
    /\ \A k \in 1..Len(order) : FileLine(k) = <<"File: ", Below(order[k].path)>>
    /\ \A i, j \in 1..Len(order) :
          (i < j /\ SameDirectory(i, j))
          => /\ order[i].idx < order[j].idx
             /\ \A k \in i..j : IsPrefix(order[i].dir, order[k].dir)
C10_Witness ==
    \E i, j, k \in 1..Len(order) :
        /\ i < k /\ k < j
        /\ SameDirectory(i, j)
        /\ ~SameDirectory(i, k)

\* C11: within a run the output is append-only: every step leaves the text it
\* found as a prefix of the text it leaves, and the text grows only in the visit
\* of a file that is included, by that file's record.
C11_OutputAppendOnly ==
    [][/\ IsPrefix(output, output')
       /\ output' # output
            => /\ visited' = visited + 1
               /\ processedFiles' = processedFiles + 1
               /\ last'.verdict = "appended"
               /\ Len(output') = Len(output) + RecordLines]_vars
C11_Witness ==
    /\ RecordCount >= 2
    /\ skippedFiles >= 1
    /\ last.verdict # "appended"

\* C12: a run of main with --local never hands the user's repository directory
\* to cleanup, however the run goes; the only directory cleanup is ever given is
\* the temporary directory of downloadRepository.
C12_LocalRepoNeverCleaned ==
    /\ cleaned \subseteq {TempDir}
    /\ (caller = "main" /\ cli.flags.local)
         => /\ cleaned = {}
            /\ \A n \in 1..Len(cli.input) : LocalPath(cli.input[n]) \notin cleaned
            /\ result.type = "local" => result.path \notin cleaned
C12_Witness ==
    /\ caller = "main"
    /\ cli.flags.local
    /\ result.type = "local"
    /\ directory = result.path
    /\ pc = "done"
    /\ written # <<>>

====
